---- MODULE Spec2Model ----
(***************************************************************************)
(* A model of the render-and-compile pipeline of the LaTeX MCP server:     *)
(*   latex_renderer.py  sanitize_jobname, LatexRenderer.write_tex,         *)
(*                      LatexRenderer.compile_pdf                          *)
(*   templating.py      LatexTemplateEngine.render                         *)
(*   service.py         LatexService.render_tex / render_template          *)
(*   server.py          the tools render_latex_document and                *)
(*                      render_template_document                           *)
(* Each tool request runs on its own worker; a step of the model is one    *)
(* file operation, one process spawn or exit, or one handler decision.     *)
(***************************************************************************)
EXTENDS Integers, Sequences, FiniteSets, TLC

VARIABLES
    probe,      \* a job name under sanitize_jobname: the argument and the values returned
    tex_inputs, \* LatexRenderer.tex_inputs, given to the constructor
    available,  \* LatexRenderer._pdflatex_available, set in __post_init__
    env,        \* the environment: does work_dir exist, is pdflatex on PATH
    fs,         \* the files of the file system: path -> content
    procs,      \* the compiler processes that are running
    th,         \* per request: the position and the locals of its worker
    hist        \* per request: what it has done so far (observation only)

vars == <<probe, tex_inputs, available, env, fs, procs, th, hist>>

-----------------------------------------------------------------------------
(* Optional values: Python's None, and a value that is present.            *)

None == <<>>
Some(x) == <<x>>
IsNone(o) == Len(o) = 0
Get(o) == o[1]

Last(s) == s[Len(s)]

-----------------------------------------------------------------------------
(* Bounds of the model.                                                    *)

MaxRuns == 3          \* the largest `runs` a request asks for

(* The requests, in the order in which Spec dispatches them.               *)
Calls == {1, 2}

RunsInputs == {0 - 1, 0} \cup (1..MaxRuns)

(* Characters of job names. "U+00E9" stands for a non-ASCII letter, for    *)
(* which str.isalnum() is true.                                            *)
AsciiAlnum == {"a", "b", "c", "d", "e", "f", "j", "m", "n", "o", "t", "u",
               "x", "D", "M", "y", "0", "7"}
UnicodeAlnum == {"U+00E9"}
Punct == {"-", "_", ".", " ", "/", "!"}
Alphabet == AsciiAlnum \cup UnicodeAlnum \cup Punct

(* The job names requests are made with: absent, empty, and one that       *)
(* needs replacing and stripping.                                          *)
JobnameInputs ==
    { None, Some(<<>>), Some(<<".", ".", "/", "j", "!">>) }

TexInputs == {"texA", "texB"}

-----------------------------------------------------------------------------
(* latex_renderer.py: sanitize_jobname                                     *)

isalnum(c) == c \in AsciiAlnum \cup UnicodeAlnum

(* c if c.isalnum() or c in ("-", "_") else "_" *)
AllowedChar(c) == IF isalnum(c) \/ c \in {"-", "_"} THEN c ELSE "_"

SetMin(S) == CHOOSE x \in S : \A y \in S : x <= y
SetMax(S) == CHOOSE x \in S : \A y \in S : x >= y

(* str.strip(chars): drop the leading and trailing characters in chars *)
strip(s, chars) ==
    LET keep == { i \in 1..Len(s) : s[i] \notin chars }
    IN  IF keep = {} THEN <<>> ELSE SubSeq(s, SetMin(keep), SetMax(keep))

document == <<"d", "o", "c", "u", "m", "e", "n", "t">>

(* A variant that does not sanitize: the name is used as it was given.     *)
sanitize_nothing(value) == IF value = <<>> THEN document ELSE value

(* A variant that strips before it replaces: value.strip("._") first, then  *)
(* the characters that are not allowed become "_".                         *)
sanitize_strip_first(value) ==
    LET stripped == strip(value, {".", "_"})
        allowed == [ i \in 1..Len(stripped) |-> AllowedChar(stripped[i]) ]
    IN  IF allowed = <<>> THEN document ELSE allowed

sanitize_jobname(value) ==
    LET allowed == [ i \in 1..Len(value) |-> AllowedChar(value[i]) ]
        stripped == strip(allowed, {".", "_"})
    IN  IF stripped = <<>> THEN document ELSE stripped

-----------------------------------------------------------------------------
(* service.py: _default_jobname, f"doc_{secrets.token_hex(4)}"             *)

TokenBytes == 4

(* secrets.token_hex(n) returns 2n hex digits; two of its values *)
TokenHex == { [ i \in 1..(2 * TokenBytes) |-> d ] : d \in {"0", "f"} }

default_jobname(token) == <<"d", "o", "c", "_">> \o token

(* A variant that generates a name only for None:                          *)
(* jobname if jobname is not None else self._default_jobname()             *)
JobnameUnlessNone(jobname, token) ==
    IF IsNone(jobname) THEN default_jobname(token) ELSE Get(jobname)

(* jobname or self._default_jobname(): None and "" are both falsy *)
JobnameOrDefault(jobname, token) ==
    IF IsNone(jobname) \/ Get(jobname) = <<>>
    THEN default_jobname(token)
    ELSE Get(jobname)

-----------------------------------------------------------------------------
(* Paths: pathlib.Path as parent directory and file name.                  *)

ARTIFACTS_DIR == "artifacts"

TexSuffix == <<".", "t", "e", "x">>
PdfSuffix == <<".", "p", "d", "f">>

Path(parent, name) == [parent |-> parent, name |-> name]

(* PurePath.suffix: from the last dot of the name, unless the dot is the   *)
(* first or the last character                                             *)
SuffixStart(name) ==
    LET dots == { i \in 1..Len(name) : name[i] = "." }
    IN  IF dots = {} THEN 0
        ELSE IF SetMax(dots) > 1 /\ SetMax(dots) < Len(name)
             THEN SetMax(dots) ELSE 0

with_suffix(path, suffix) ==
    LET i == SuffixStart(path.name)
        stem == IF i = 0 THEN path.name ELSE SubSeq(path.name, 1, i - 1)
    IN  Path(path.parent, stem \o suffix)

(* str(path) *)
(* str(path): the parent, a "/" unless the parent is a root, and the name *)
PathStr(path) ==
    IF path.parent \in {"/", "//"} THEN <<path.parent>> \o path.name
    ELSE <<path.parent, "/">> \o path.name

exists(files, path) == path \in DOMAIN files

write_text(files, path, content) ==
    [ q \in (DOMAIN files) \cup {path} |->
        IF q = path THEN content ELSE files[q] ]

-----------------------------------------------------------------------------
(* templating.py: LatexTemplateEngine over the templates on disk. A        *)
(* template is a sequence of literal text and {{ variable }} parts.        *)

Lit(s) == [kind |-> "lit", text |-> s]
Var(v) == [kind |-> "var", text |-> v]

TemplateStore ==
    [ n \in {"simple.tex.j2"} |->
        << Lit("\\section*{ "), Var("title"), Lit(" }") >> ]

TemplateInputs == {"simple.tex.j2", "missing.tex.j2"}
ContextInputs == { [ k \in {"title"} |-> "Example" ] }

RECURSIVE RenderParts(_, _)
RenderParts(parts, context) ==
    IF parts = <<>> THEN ""
    ELSE LET p == Head(parts)
             s == IF p.kind = "lit" THEN p.text
                  ELSE IF p.text \in DOMAIN context THEN context[p.text]
                  ELSE ""
         IN  s \o RenderParts(Tail(parts), context)

(* Environment.get_template: does the name resolve *)
TemplateFound(template_name) == template_name \in DOMAIN TemplateStore

(* template.render with the context as keyword arguments *)
TemplateRender(template_name, context) ==
    RenderParts(TemplateStore[template_name], context)

-----------------------------------------------------------------------------
(* Exceptions, as the code raises them.                                    *)

PDFLATEX == "pdflatex"

(* compile_pdf: raise FileNotFoundError(...) *)
MissingPdflatex ==
    [ type |-> "FileNotFoundError",
      message |-> <<"pdflatex executable '", PDFLATEX, "' not found on PATH">>,
      log |-> None ]

(* subprocess.run / open() failing with ENOENT *)
NoSuchFile(what) ==
    [ type |-> "FileNotFoundError",
      message |-> <<"No such file or directory: ", what>>,
      log |-> None ]

(* compile_pdf: raise LatexCompileError(f"pdflatex failed for ...", log=err.stdout) *)
CompileFailed(tex_path, stdout) ==
    [ type |-> "LatexCompileError",
      message |-> <<"pdflatex failed for ">> \o tex_path.name,
      log |-> Some(stdout) ]

(* compile_pdf: raise LatexCompileError(f"pdflatex did not produce ...") *)
NotProduced(pdf_path) ==
    [ type |-> "LatexCompileError",
      message |-> <<"pdflatex did not produce ">> \o pdf_path.name,
      log |-> None ]

(* jinja2.TemplateNotFound(name) *)
TemplateNotFound(template_name) ==
    [ type |-> "TemplateNotFound",
      message |-> <<template_name>>,
      log |-> None ]

-----------------------------------------------------------------------------
(* The state of one request.                                               *)

IdleThread ==
    [ tex_path |-> None, pdf_path |-> None, pc |-> "idle", req |-> None,
      tex |-> None, job |-> None, args |-> None, passNo |-> 0,
      exc |-> None, response |-> None ]

NoHistory ==
    [ svcCalls |-> <<>>, named |-> <<>>, writes |-> <<>>, spawns |-> <<>>,
      exits |-> <<>>, caught |-> <<>>, warnings |-> <<>> ]

Req(c) == Get(th[c].req)

(* the number of calls of the render service this request has made *)
Attempt(c) == Len(hist[c].svcCalls)

(* the compile_pdf argument of the service call that is running *)
CompileArg(c) == Last(hist[c].svcCalls).compile_pdf

(* the first statement of the service method a tool calls *)
ServiceEntry(tool) ==
    IF tool = "render_template_document" THEN "render_template" ELSE "render_tex"

Init ==
    /\ probe = None
    /\ tex_inputs = None
    /\ available \in BOOLEAN
    /\ env = [workdir |-> TRUE, binary |-> available]
    /\ fs = << >>
    /\ procs = {}
    /\ th = [ c \in Calls |-> IdleThread ]
    /\ hist = [ c \in Calls |-> NoHistory ]

(* It is request c's turn: the requests before it have been answered,     *)
(* the requests after it have not been made.                               *)
Turn(c) ==
    \A d \in Calls : /\ d < c => th[d].pc = "closed"
                     /\ d > c => th[d].pc = "idle"

-----------------------------------------------------------------------------
(* server.py: the tools are called; each hands the service call to a       *)
(* worker thread (anyio.to_thread.run_sync).                               *)

(* the arguments a tool passes on to the service method: jobname,          *)
(* compile_pdf (False in the retry) and runs                               *)
ServiceArgs(request, compile) ==
    [ jobname |-> request.jobname, compile_pdf |-> compile, runs |-> request.runs ]

Dispatch(c, request) ==
    /\ th[c].pc = "idle"
    /\ th' = [th EXCEPT ![c] =
                [ IdleThread EXCEPT
                    !.pc = ServiceEntry(request.tool),
                    !.req = Some(request),
                    !.tex = request.tex,
                    !.args = Some(ServiceArgs(request, request.compile_pdf)) ] ]
    /\ hist' = [hist EXCEPT ![c].svcCalls =
                  << [ compile_pdf |-> request.compile_pdf,
                       op |-> ServiceEntry(request.tool) ] >> ]
    /\ UNCHANGED <<probe, tex_inputs, available, env, fs, procs>>

render_latex_document(c) ==
    \E tex \in TexInputs, jobname \in JobnameInputs, compile \in BOOLEAN,
       runs \in RunsInputs, ctx \in BOOLEAN :
        Dispatch(c, [ jobname |-> jobname, context |-> None,
                      template_name |-> None, tex |-> Some(tex),
                      compile_pdf |-> compile, tool |-> "render_latex_document",
                      runs |-> runs, ctx |-> ctx ])

render_template_document(c) ==
    \E template_name \in TemplateInputs, context \in ContextInputs,
       jobname \in JobnameInputs, compile \in BOOLEAN,
       runs \in RunsInputs, ctx \in BOOLEAN :
        Dispatch(c, [ jobname |-> jobname, context |-> Some(context),
                      template_name |-> Some(template_name),
                      tex |-> None,
                      compile_pdf |-> compile, tool |-> "render_template_document",
                      runs |-> runs, ctx |-> ctx ])

-----------------------------------------------------------------------------
(* service.py                                                              *)

(* A variant that leaves compile_pdf and runs to render_tex's defaults:     *)
(* return self.render_tex(tex, jobname=jobname)                            *)
DelegateArgsDefaults(a) ==
    [ jobname |-> a.jobname, compile_pdf |-> TRUE, runs |-> 1 ]

(* render_template: return self.render_tex(tex, jobname=jobname,           *)
(* compile_pdf=compile_pdf, runs=runs)                                     *)
DelegateArgs(a) ==
    [ jobname |-> a.jobname, compile_pdf |-> a.compile_pdf, runs |-> a.runs ]

(* render_template: tex = self.template_engine.render(template_name, context) *)
render_template(c) ==
    /\ th[c].pc = "render_template"
    /\ LET name == Get(Req(c).template_name)
       IN  IF TemplateFound(name)
           THEN th' = [th EXCEPT
                         ![c].tex = Some(TemplateRender(name, Get(Req(c).context))),
                         ![c].args = Some(DelegateArgs(Get(th[c].args))),
                         ![c].pc = "render_tex"]
           ELSE th' = [th EXCEPT
                         ![c].exc = Some(TemplateNotFound(name)),
                         ![c].pc = "except"]
    /\ UNCHANGED <<probe, tex_inputs, available, env, fs, procs, hist>>

(* render_tex: job = sanitize_jobname(jobname or self._default_jobname()) *)
render_tex(c) ==
    /\ th[c].pc = "render_tex"
    /\ \E token \in TokenHex :
        LET job == sanitize_jobname(JobnameOrDefault(Get(th[c].args).jobname, token))
        IN  /\ th' = [th EXCEPT ![c].job = Some(job), ![c].pc = "write_tex"]
            /\ hist' = [hist EXCEPT ![c].named = Append(@, job)]
    /\ UNCHANGED <<probe, tex_inputs, available, env, fs, procs>>

-----------------------------------------------------------------------------
(* latex_renderer.py: LatexRenderer                                        *)

(* str.replace(" ", "_") *)
ReplaceSpaces(name) ==
    [ i \in 1..Len(name) |-> IF name[i] = " " THEN "_" ELSE name[i] ]

(* A variant that writes every source to one file, whatever the name. *)
TexPathOfShared(work_dir, name) == Path(work_dir, document \o TexSuffix)

(* pathlib's "/" operator parses the right-hand string: it is split at    *)
(* every "/", empty and "." components are dropped, and a string that      *)
(* starts with "/" is an absolute path that replaces the left-hand side    *)
(* (exactly two leading slashes are kept as the root "//").                *)
SlashAt(s) == { i \in 1..Len(s) : s[i] = "/" }

RECURSIVE Split(_)
Split(s) ==
    IF SlashAt(s) = {} THEN <<s>>
    ELSE LET i == SetMin(SlashAt(s))
         IN  <<SubSeq(s, 1, i - 1)>> \o Split(SubSeq(s, i + 1, Len(s)))

Components(s) == SelectSeq(Split(s), LAMBDA part : part # <<>> /\ part # <<".">>)

LeadingSlashes(s) ==
    IF \A i \in 1..Len(s) : s[i] = "/" THEN Len(s)
    ELSE SetMin({ i \in 1..Len(s) : s[i] # "/" }) - 1

Anchor(s) ==
    IF LeadingSlashes(s) = 0 THEN ""
    ELSE IF LeadingSlashes(s) = 2 THEN "//" ELSE "/"

(* the characters of a component as one string *)
RECURSIVE Chars(_)
Chars(part) == IF part = <<>> THEN "" ELSE part[1] \o Chars(Tail(part))

(* the components, each as a string, joined with "/" *)
RECURSIVE DirStr(_)
DirStr(parts) ==
    IF parts = <<>> THEN ""
    ELSE IF Len(parts) = 1 THEN Chars(parts[1])
    ELSE Chars(parts[1]) \o "/" \o DirStr(Tail(parts))

(* the directory components of work_dir / file, below work_dir or below    *)
(* the root when file is absolute                                          *)
DirsOf(file) == SubSeq(Components(file), 1, Len(Components(file)) - 1)

(* work_dir / file for a file name that does not end in "/" *)
JoinPath(work_dir, file) ==
    LET dirs == DirsOf(file)
        parent == IF Anchor(file) # "" THEN Anchor(file) \o DirStr(dirs)
                  ELSE IF dirs = <<>> THEN work_dir
                  ELSE work_dir \o "/" \o DirStr(dirs)
    IN  Path(parent, Last(Components(file)))

(* write_tex: self.work_dir / f"{safe_name}.tex" *)
TexPathOf(work_dir, name) == JoinPath(work_dir, ReplaceSpaces(name) \o TexSuffix)

(* A variant that compiles whatever compile_pdf says. *)
AfterWriteAlwaysCompile(compile) == "compile_pdf"

(* render_tex: if compile_pdf: ... compile_pdf(...), else return *)
AfterWrite(compile) == IF compile THEN "compile_pdf" ELSE "return"

(* A variant that puts the write off: the path is made and returned, the   *)
(* file is not written.                                                    *)
write_tex_deferred(c) ==
    /\ th[c].pc = "write_tex"
    /\ th' = [th EXCEPT
                ![c].tex_path = Some(TexPathOf(ARTIFACTS_DIR, Get(th[c].job))),
                ![c].pc = AfterWrite(Get(th[c].args).compile_pdf)]
    /\ UNCHANGED <<probe, tex_inputs, available, env, fs, procs, hist>>

(* A variant that takes a lock per job name: the source is written only    *)
(* when no other request has the same job name between its write and its   *)
(* return.                                                                 *)
write_tex_locked(c) ==
    /\ th[c].pc = "write_tex"
    /\ \A d \in Calls \ {c} :
            th[d].job = th[c].job =>
                th[d].pc \notin {"write_text", "compile_pdf", "run", "wait"}
    /\ fs' = write_text(fs, TexPathOf(ARTIFACTS_DIR, Get(th[c].job)), "")
    /\ th' = [th EXCEPT ![c].pc = "write_text"]
    /\ UNCHANGED <<probe, tex_inputs, available, env, procs, hist>>

(* Where the directory components of a path lead. Nothing creates a       *)
(* directory below the working directory and the names are too short to    *)
(* spell one that exists elsewhere, so every component but ".." leads      *)
(* nowhere; ".." leads from the working directory ("work") to the          *)
(* directory it lies in ("base") and on to the directories above, which    *)
(* are there, as is the root.                                              *)
RECURSIVE Resolve(_, _)
Resolve(loc, dirs) ==
    IF dirs = <<>> \/ loc = "none" THEN loc
    ELSE IF dirs[1] = <<".", ".">>
         THEN Resolve(IF loc = "work" THEN "base"
                      ELSE IF loc = "root" THEN "root" ELSE "above", Tail(dirs))
    ELSE "none"

(* whether open() finds the directory of work_dir / file *)
DirThere(work_dir_there, file) ==
    Resolve(IF Anchor(file) # "" THEN "root"
            ELSE IF work_dir_there THEN "work" ELSE "none", DirsOf(file)) # "none"

(* open(path, "w"): the file is created, or emptied when it is there *)
open_w(files, path) == write_text(files, path, "")

(* write() on a file opened with "w", by a writer that has written nothing *)
(* yet: the data goes to the start of the file and replaces what is there  *)
(* up to its own length; the rest, written by another writer since the     *)
(* open, stays.                                                            *)
Overlay(old, data) ==
    IF Len(data) >= Len(old) THEN data
    ELSE data \o SubSeq(old, Len(data) + 1, Len(old))

(* the write and the close: a file that was removed since the open is not  *)
(* brought back by writing to it                                           *)
write_data(files, path, data) ==
    IF exists(files, path)
    THEN [files EXCEPT ![path] = Overlay(@, data)]
    ELSE files

(* write_tex: tex_path.write_text(tex, encoding="utf-8") opens the file,   *)
(* which fails when the directory is not there and empties the file when   *)
(* it is; the text is written in a later step (write_text_data).           *)
write_tex(c) ==
    /\ th[c].pc = "write_tex"
    /\ LET tex_path == TexPathOf(ARTIFACTS_DIR, Get(th[c].job))
       IN  IF DirThere(env.workdir, ReplaceSpaces(Get(th[c].job)) \o TexSuffix)
           THEN /\ fs' = open_w(fs, tex_path)
                /\ th' = [th EXCEPT ![c].pc = "write_text"]
           ELSE /\ th' = [th EXCEPT ![c].exc = Some(NoSuchFile(PathStr(tex_path))),
                                    ![c].pc = "except"]
                /\ UNCHANGED fs
    /\ UNCHANGED <<probe, tex_inputs, available, env, procs, hist>>

(* write_tex: the text is written to the open file, the file is closed and *)
(* write_tex returns tex_path. Other threads and the compiler processes    *)
(* run between the open and this step.                                     *)
write_text_data(c) ==
    /\ th[c].pc = "write_text"
    /\ LET tex_path == TexPathOf(ARTIFACTS_DIR, Get(th[c].job))
           tex == Get(th[c].tex)
       IN  /\ fs' = write_data(fs, tex_path, tex)
           /\ th' = [th EXCEPT ![c].tex_path = Some(tex_path),
                               ![c].pc = AfterWrite(Get(th[c].args).compile_pdf)]
           /\ hist' = [hist EXCEPT ![c].writes =
                         Append(@, [path |-> tex_path, text |-> tex])]
    /\ UNCHANGED <<probe, tex_inputs, available, env, procs>>

(* A variant that looks for the binary at every call:                      *)
(* if shutil.which(self.pdflatex_path) is None: raise FileNotFoundError    *)
compile_pdf_probing(c) ==
    /\ th[c].pc = "compile_pdf"
    /\ IF env.binary
       THEN th' = [th EXCEPT ![c].passNo = 0, ![c].pc = "run"]
       ELSE th' = [th EXCEPT ![c].exc = Some(MissingPdflatex), ![c].pc = "except"]
    /\ UNCHANGED <<probe, tex_inputs, available, env, fs, procs, hist>>

(* compile_pdf: if not self._pdflatex_available: raise FileNotFoundError *)
compile_pdf(c) ==
    /\ th[c].pc = "compile_pdf"
    /\ IF available
       THEN th' = [th EXCEPT ![c].passNo = 0, ![c].pc = "run"]
       ELSE th' = [th EXCEPT ![c].exc = Some(MissingPdflatex), ![c].pc = "except"]
    /\ UNCHANGED <<probe, tex_inputs, available, env, fs, procs, hist>>

(* A variant without the floor: range(runs). *)
NumPassesNoFloor(runs) == runs

(* for _ in range(max(runs, 1)) *)
NumPasses(runs) == IF runs > 1 THEN runs ELSE 1

(* what pdflatex prints in one pass: it differs from pass to pass and with *)
(* the source the pass read                                                *)
Stdout(proc) ==
    "pdflatex pass " \o ToString(proc.pass) \o " of "
        \o (IF IsNone(proc.input) THEN "no file" ELSE Get(proc.input))

(* the compiled document, of the source a pass read *)
PdfOf(proc) == [pdf_of |-> proc.input]

ReadFile(files, path) == IF exists(files, path) THEN Some(files[path]) ELSE None

(* os.pathsep, tempfile.gettempdir() and os.environ of the server, which   *)
(* has a TEXINPUTS of its own                                              *)
PATHSEP == ":"
TEMPDIR == "/tmp"
OsEnviron ==
    [ k \in {"PATH", "TEXINPUTS"} |->
        IF k = "PATH" THEN "/usr/bin" ELSE "/usr/share/texmf//" ]

(* sep.join(entries) *)
RECURSIVE Join(_, _)
Join(entries, sep) ==
    IF entries = <<>> THEN ""
    ELSE IF Len(entries) = 1 THEN entries[1]
    ELSE entries[1] \o sep \o Join(Tail(entries), sep)

(* A variant without the empty entry: os.pathsep.join([*paths, root]) *)
join_tex_inputs_no_default(paths) == Join(paths \o <<TEMPDIR>>, PATHSEP)

(* _join_tex_inputs: os.pathsep.join([*paths, "", tempfile.gettempdir()]) *)
join_tex_inputs(paths) == Join(paths \o <<"", TEMPDIR>>, PATHSEP)

(* d[k] = v on a copy of the dict d *)
DictSet(d, k, v) ==
    [ x \in (DOMAIN d) \cup {k} |-> IF x = k THEN v ELSE d[x] ]

(* compile_pdf: env = None; if self.tex_inputs: env = os.environ.copy();    *)
(* env["TEXINPUTS"] = self._join_tex_inputs(extra_inputs). None and the    *)
(* empty sequence are both falsy.                                          *)
CompilerEnv(inputs) ==
    IF IsNone(inputs) \/ Get(inputs) = <<>> THEN None
    ELSE Some(DictSet(OsEnviron, "TEXINPUTS", join_tex_inputs(Get(inputs))))

(* A variant that starts the pass and does not wait for it                 *)
(* (subprocess.Popen instead of subprocess.run): the loop goes on at once. *)
spawn_pass_detached(c) ==
    /\ th[c].pc = "run"
    /\ th[c].passNo < NumPasses(Get(th[c].args).runs)
    /\ LET tex_path == Get(th[c].tex_path)
           proc == [ env |-> CompilerEnv(tex_inputs),
                     pass |-> th[c].passNo + 1,
                     input |-> ReadFile(fs, Path(ARTIFACTS_DIR, tex_path.name)),
                     call |-> c, cwd |-> ARTIFACTS_DIR, arg |-> tex_path.name ]
       IN  /\ procs' = procs \cup {proc}
           /\ th' = [th EXCEPT ![c].passNo = @ + 1]
           /\ hist' = [hist EXCEPT ![c].spawns =
                         Append(@, [pass |-> proc.pass, attempt |-> Attempt(c)])]
    /\ UNCHANGED <<probe, tex_inputs, available, env, fs>>

(* subprocess.run([pdflatex, ..., tex_path.name], cwd=self.work_dir, ...): *)
(* the process starts; run() returns only when it has exited. It raises    *)
(* FileNotFoundError when cwd or the executable is not there.              *)
spawn_pass(c) ==
    /\ th[c].pc = "run"
    /\ th[c].passNo < NumPasses(Get(th[c].args).runs)
    /\ LET tex_path == Get(th[c].tex_path)
           proc == [ env |-> CompilerEnv(tex_inputs),
                     pass |-> th[c].passNo + 1,
                     input |-> ReadFile(fs, Path(ARTIFACTS_DIR, tex_path.name)), call |-> c, cwd |-> ARTIFACTS_DIR,
                     arg |-> tex_path.name ]
       IN  IF env.workdir /\ env.binary
           THEN /\ procs' = procs \cup {proc}
                /\ th' = [th EXCEPT ![c].pc = "wait"]
                /\ hist' = [hist EXCEPT ![c].spawns =
                              Append(@, [pass |-> proc.pass, attempt |-> Attempt(c)])]
           ELSE /\ th' = [th EXCEPT
                            ![c].exc = Some(NoSuchFile(IF env.workdir THEN PDFLATEX
                                                       ELSE ARTIFACTS_DIR)),
                            ![c].pc = "except"]
                /\ UNCHANGED <<procs, hist>>
    /\ UNCHANGED <<probe, tex_inputs, available, env, fs>>

(* err.stdout of the CalledProcessError *)
FailureLog(stdout) == stdout

(* A variant that runs the passes without check=True: the exit status is   *)
(* ignored and the loop goes on.                                           *)
AfterExitUnchecked(t, status, stdout) ==
    [t EXCEPT !.passNo = @ + 1, !.pc = "run"]

(* subprocess.run(..., check=True) has returned or raised: the loop goes   *)
(* on after status 0; CalledProcessError leaves the loop and becomes       *)
(* LatexCompileError(log=err.stdout)                                       *)
AfterExit(t, status, stdout) ==
    IF status # 0
    THEN [t EXCEPT !.exc = Some(CompileFailed(Get(t.tex_path), FailureLog(stdout))),
                   !.pc = "except"]
    ELSE [t EXCEPT !.passNo = @ + 1, !.pc = "run"]

(* The process exits. Status 0 with or without a PDF written (pdflatex     *)
(* writes none for a document without pages), or non-zero, as always when  *)
(* the file it was told to read is not in its directory (check=True        *)
(* raises CalledProcessError, which compile_pdf turns into                 *)
(* LatexCompileError).                                                     *)
pass_exit(c) ==
    /\ th[c].pc = "wait"
    /\ \E proc \in procs, outcome \in {"ok_pdf", "ok_nopdf", "fail"} :
        LET status == IF outcome = "fail" THEN 1 ELSE 0
            out == Stdout(proc)
            produced == with_suffix(Path(proc.cwd, proc.arg), PdfSuffix)
        IN  /\ proc.call = c
            /\ outcome = "ok_pdf" => env.workdir
            /\ IsNone(proc.input) => outcome = "fail"
            /\ procs' = procs \ {proc}
            /\ hist' = [hist EXCEPT ![c].exits =
                          Append(@, [stdout |-> out, pass |-> proc.pass,
                                     status |-> status])]
            /\ fs' = IF outcome = "ok_pdf"
                     THEN write_text(fs, produced, PdfOf(proc))
                     ELSE fs
            /\ th' = [th EXCEPT ![c] = AfterExit(th[c], status, out)]
    /\ UNCHANGED <<probe, tex_inputs, available, env>>

(* A variant without the pdf_path.exists() check. *)
check_pdf_unchecked(c) ==
    /\ th[c].pc = "run"
    /\ th[c].passNo >= NumPasses(Get(th[c].args).runs)
    /\ th' = [th EXCEPT
                ![c].pdf_path = Some(with_suffix(Get(th[c].tex_path), PdfSuffix)),
                ![c].pc = "return"]
    /\ UNCHANGED <<probe, tex_inputs, available, env, fs, procs, hist>>

(* pdf_path = tex_path.with_suffix(".pdf"); if not pdf_path.exists(): raise *)
check_pdf(c) ==
    /\ th[c].pc = "run"
    /\ th[c].passNo >= NumPasses(Get(th[c].args).runs)
    /\ LET pdf_path == with_suffix(Get(th[c].tex_path), PdfSuffix)
       IN  IF exists(fs, pdf_path)
           THEN th' = [th EXCEPT ![c].pdf_path = Some(pdf_path), ![c].pc = "return"]
           ELSE th' = [th EXCEPT ![c].exc = Some(NotProduced(pdf_path)),
                                 ![c].pc = "except"]
    /\ UNCHANGED <<probe, tex_inputs, available, env, fs, procs, hist>>

-----------------------------------------------------------------------------
(* server.py: what the tools make of the service's return or exception.    *)

(* A variant that names the PDF whether or not it was compiled. *)
ServiceResultAlwaysPdf(t) ==
    [ jobname |-> Get(t.job), tex_path |-> Get(t.tex_path),
      pdf_path |-> Some(with_suffix(Get(t.tex_path), PdfSuffix)) ]

(* render_tex: return {"jobname": job, "tex_path": ..., "pdf_path": ...} *)
ServiceResult(t) ==
    [ jobname |-> Get(t.job), tex_path |-> Get(t.tex_path), pdf_path |-> t.pdf_path ]

(* _build_structured_payload *)
build_structured_payload(result) ==
    [ jobname |-> result.jobname,
      tex_path |-> PathStr(result.tex_path),
      pdf_path |-> IF IsNone(result.pdf_path) THEN None
                   ELSE Some(PathStr(Get(result.pdf_path))) ]

(* the summary of the else: branch (first attempt returned) and of the     *)
(* except FileNotFoundError: branch (the retry returned)                   *)
Summary(tool, attempt) ==
    IF tool = "render_latex_document"
    THEN IF attempt = 1 THEN "LaTeX rendered successfully."
         ELSE "LaTeX saved, but pdflatex was unavailable."
    ELSE IF attempt = 1 THEN "Template rendered successfully."
         ELSE "Template rendered but pdflatex was unavailable."

WarningText(tool) ==
    IF tool = "render_latex_document"
    THEN "pdflatex not found; returning .tex artifact only."
    ELSE "pdflatex not found; returning LaTeX only."

(* files = [File(tex_path)]; if result["pdf_path"]: files.append(...);     *)
(* return ToolResult(content=[summary, *files], structured_content=...)    *)
ToolResult(tool, attempt, result) ==
    [ files |-> IF IsNone(result.pdf_path) THEN <<result.tex_path>>
                ELSE <<result.tex_path, Get(result.pdf_path)>>,
      kind |-> "ToolResult",
      summary |-> Summary(tool, attempt),
      structured_content |-> build_structured_payload(result) ]

tool_return(c) ==
    /\ th[c].pc = "return"
    /\ th' = [th EXCEPT
                ![c].response =
                    Some(ToolResult(Req(c).tool, Attempt(c), ServiceResult(th[c]))),
                ![c].pc = "done"]
    /\ UNCHANGED <<probe, tex_inputs, available, env, fs, procs, hist>>

(* A variant without the except FileNotFoundError: retry: every caught     *)
(* exception becomes a ToolError.                                          *)
HandlerNoFallback(tool, attempt, compile, e) ==
    IF attempt > 1 THEN "propagate" ELSE "tool_error"

(* A variant that also retries, without compiling, after a                *)
(* LatexCompileError.                                                      *)
HandlerRetryOnCompileError(tool, attempt, compile, e) ==
    IF attempt > 1 THEN "propagate"
    ELSE IF tool = "render_template_document" /\ e.type = "TemplateNotFound"
         THEN "tool_error"
    ELSE IF ~compile THEN "tool_error" ELSE "retry"

(* A variant whose first clause is except OSError: TemplateNotFound is an  *)
(* OSError and takes the fallback.                                         *)
HandlerTemplateAsMissingFile(tool, attempt, compile, e) ==
    IF attempt > 1 THEN "propagate"
    ELSE IF e.type \in {"FileNotFoundError", "TemplateNotFound"}
         THEN IF ~compile THEN "tool_error" ELSE "retry"
    ELSE "tool_error"

(* The except clauses of the tools, in their order. An exception of the    *)
(* retry is raised inside the except FileNotFoundError: block, where no    *)
(* clause catches it.                                                      *)
Handler(tool, attempt, compile, e) ==
    IF attempt > 1 THEN "propagate"
    ELSE IF tool = "render_template_document" /\ e.type = "TemplateNotFound"
         THEN "tool_error"
    ELSE IF e.type = "FileNotFoundError"
         THEN IF ~compile THEN "tool_error" ELSE "retry"
    ELSE IF e.type = "LatexCompileError" THEN "tool_error"
    ELSE "propagate"

(* the text of the ToolError; str(err) is the exception's message *)
ToolErrorMessage(request, e) ==
    IF e.type = "TemplateNotFound"
    THEN <<"Template '", Get(request.template_name), "' not found">>
    ELSE IF e.type = "LatexCompileError"
    THEN <<"pdflatex compilation failed: ">> \o e.message
    ELSE e.message

ToolError(request, e) == [kind |-> "ToolError", message |-> ToolErrorMessage(request, e)]

Raised(e) == [kind |-> "raised", exc |-> e]

(* if ctx: await ctx.warning(...) *)
Warn(warnings, request) ==
    IF request.ctx THEN Append(warnings, WarningText(request.tool)) ELSE warnings

(* A variant that retries with compile_pdf unchanged. *)
RetryCallCompiling(tool) == [compile_pdf |-> TRUE, op |-> ServiceEntry(tool)]

(* the retry: service.render_tex(tex, jobname, False, runs), or            *)
(* service.render_template(template_name, context, jobname, False, runs)   *)
RetryCall(tool) == [compile_pdf |-> FALSE, op |-> ServiceEntry(tool)]

(* the worker of the retry: run_sync(service.render_tex, tex, jobname,     *)
(* False, runs), and likewise for the template tool                        *)
RetryThread(t) ==
    [ IdleThread EXCEPT
        !.pc = ServiceEntry(Get(t.req).tool),
        !.req = t.req,
        !.tex = Get(t.req).tex,
        !.args = Some(ServiceArgs(Get(t.req),
                                  RetryCall(Get(t.req).tool).compile_pdf)) ]

(* The service call raised: the except clauses of the tool. With a ctx the *)
(* fallback awaits ctx.warning first and hands the retry over in a later   *)
(* step (tool_retry); without one it hands it over at once.                *)
tool_except(c) ==
    /\ th[c].pc = "except"
    /\ LET e == Get(th[c].exc)
           request == Req(c)
           h == Handler(request.tool, Attempt(c), request.compile_pdf, e)
       IN  IF h = "retry" /\ request.ctx
           THEN /\ th' = [th EXCEPT ![c].pc = "warned"]
                /\ hist' = [hist EXCEPT
                              ![c].caught = Append(@, e),
                              ![c].warnings = Warn(@, request)]
           ELSE IF h = "retry"
           THEN /\ th' = [th EXCEPT ![c] = RetryThread(th[c])]
                /\ hist' = [hist EXCEPT
                              ![c].caught = Append(@, e),
                              ![c].warnings = Warn(@, request),
                              ![c].svcCalls = Append(@, RetryCall(request.tool))]
           ELSE /\ th' = [th EXCEPT
                            ![c].response =
                                IF h = "tool_error" THEN Some(ToolError(request, e))
                                ELSE Some(Raised(e)),
                            ![c].pc = "done"]
                /\ hist' = [hist EXCEPT ![c].caught = Append(@, e)]
    /\ UNCHANGED <<probe, tex_inputs, available, env, fs, procs>>

(* await ctx.warning(...) has returned: the retry is handed to a worker    *)
(* thread. The event loop ran other requests in between.                   *)
tool_retry(c) ==
    /\ th[c].pc = "warned"
    /\ th' = [th EXCEPT ![c] = RetryThread(th[c])]
    /\ hist' = [hist EXCEPT ![c].svcCalls = Append(@, RetryCall(Req(c).tool))]
    /\ UNCHANGED <<probe, tex_inputs, available, env, fs, procs>>

(* The tool coroutine returns or raises: the response goes to the client   *)
(* and the frame of the request, with all its locals, is gone.             *)
respond(c) ==
    /\ th[c].pc = "done"
    /\ th' = [th EXCEPT ![c] = [IdleThread EXCEPT !.pc = "closed"]]
    /\ hist' = [hist EXCEPT ![c] = NoHistory]
    /\ UNCHANGED <<probe, tex_inputs, available, env, fs, procs>>

-----------------------------------------------------------------------------
(* The requests of Spec come one after the other: a tool is called when    *)
(* the request before it has been answered.                                *)

Next ==
    \E c \in Calls :
        \/ Turn(c) /\ render_latex_document(c)
        \/ Turn(c) /\ render_template_document(c)
        \/ render_template(c)
        \/ render_tex(c)
        \/ write_tex(c)
        \/ write_text_data(c)
        \/ compile_pdf(c)
        \/ spawn_pass(c)
        \/ pass_exit(c)
        \/ check_pdf(c)
        \/ tool_return(c)
        \/ tool_except(c)
        \/ tool_retry(c)
        \/ respond(c)

Spec == Init /\ [][Next]_vars

-----------------------------------------------------------------------------
(* Vocabulary of the properties.                                           *)

Active(c) == th[c].pc \notin {"idle", "closed"}
Done(c) == th[c].pc = "done"
Response(c) == Get(th[c].response)

MaxOf(a, b) == IF a >= b THEN a ELSE b

(* the text a request asks to be written: its tex, or its template expanded *)
RequestText(request) ==
    IF request.tool = "render_latex_document" THEN Get(request.tex)
    ELSE TemplateRender(Get(request.template_name), Get(request.context))

(* the template of a request resolves (always, for render_latex_document) *)
Resolves(request) ==
    request.tool = "render_template_document"
        => Get(request.template_name) \in DOMAIN TemplateStore

(* the response is a source-only success: the source file it names holds   *)
(* the request's text and it names no artifact                             *)
SourceOnly(c) ==
    /\ Response(c).kind = "ToolResult"
    /\ IsNone(Response(c).structured_content.pdf_path)
    /\ Len(Response(c).files) = 1
    /\ exists(fs, Response(c).files[1])
    /\ fs[Response(c).files[1]] = RequestText(Req(c))

(* compile_pdf has been called in the running service call and has        *)
(* returned or raised (the source is written before it is called)          *)
CompileEnded(c) ==
    /\ Active(c)
    /\ CompileArg(c)
    /\ ~IsNone(th[c].tex_path)
    /\ th[c].pc \in {"return", "except", "done"}

(* the summary of a response tells that pdflatex was unavailable *)
Advisory(c) ==
    Response(c).summary \in { "LaTeX saved, but pdflatex was unavailable.",
                              "Template rendered but pdflatex was unavailable." }

-----------------------------------------------------------------------------
(* C1 as stated: when the compiler binary is absent, every render tool     *)
(* request made with compile=true ends with a source-only success and an   *)
(* advisory warning, and spawns no compiler process.                       *)
C1_AsStated ==
    \A c \in Calls :
        (Done(c) /\ ~available /\ Req(c).compile_pdf) =>
            /\ SourceOnly(c)
            /\ hist[c].warnings # <<>>
            /\ hist[c].spawns = <<>>

(* C1 amended: when the compiler binary is absent and compile=true, no     *)
(* compiler process is ever spawned; a request whose template resolves     *)
(* (every render_latex_document request does) ends with a source-only      *)
(* success whose summary says that pdflatex was unavailable, and with one  *)
(* warning exactly when the request carries a context; a request whose     *)
(* template does not resolve ends with the ToolError "Template not found". *)
C1_MissingBinaryDegrades ==
    \A c \in Calls :
        (Active(c) /\ ~available /\ Req(c).compile_pdf) =>
            /\ hist[c].spawns = <<>>
            /\ { p \in procs : p.call = c } = {}
            /\ Done(c) =>
                IF Resolves(Req(c))
                THEN /\ SourceOnly(c)
                     /\ Advisory(c)
                     /\ Len(hist[c].warnings) = (IF Req(c).ctx THEN 1 ELSE 0)
                ELSE /\ Response(c).kind = "ToolError"
                     /\ Response(c).message[1] = "Template '"
                     /\ hist[c].warnings = <<>>

(* a compile=true request answered source-only after the fallback *)
C1_Witness ==
    \E c \in Calls :
        /\ Done(c) /\ ~available /\ Req(c).compile_pdf /\ Req(c).ctx
        /\ Attempt(c) = 2
        /\ SourceOnly(c)
        /\ Len(hist[c].warnings) = 1

-----------------------------------------------------------------------------
(* C2: fail-fast multi-pass. If pass k is the first pass to exit non-zero, *)
(* then k <= max(runs, 1), exactly k compiler processes are spawned (none  *)
(* after pass k), the outcome is the LatexCompileError that carries a log, *)
(* and that log is the output of pass k, which is the output of no earlier *)
(* pass.                                                                   *)
C2_FailFast ==
    \A c \in Calls :
        LET ex == hist[c].exits
            sp == hist[c].spawns
            failed == { i \in 1..Len(ex) : ex[i].status # 0 }
        IN  failed # {} =>
              LET k == CHOOSE i \in failed : \A j \in failed : i <= j
              IN  /\ failed = {k}
                  /\ k = Len(ex)
                  /\ Len(sp) = k
                  /\ k <= MaxOf(Req(c).runs, 1)
                  /\ \A i \in 1..k : ex[i].pass = i /\ sp[i].pass = i
                  /\ { p \in procs : p.call = c } = {}
                  /\ th[c].pc \in {"except", "done"}
                  /\ ~IsNone(th[c].exc)
                  /\ Get(th[c].exc).type = "LatexCompileError"
                  /\ Get(th[c].exc).log = Some(ex[k].stdout)
                  /\ \A i \in 1..(k - 1) : ex[i].stdout # ex[k].stdout
                  /\ IsNone(th[c].pdf_path)

(* a 3-pass request whose second pass fails *)
C2_Witness ==
    \E c \in Calls :
        /\ Done(c)
        /\ Req(c).runs = 3
        /\ Len(hist[c].exits) = 2
        /\ hist[c].exits[1].status = 0
        /\ hist[c].exits[2].status # 0
        /\ Get(th[c].exc).log = Some(hist[c].exits[2].stdout)

(* C3: when the binary is available and every pass exits with status 0,    *)
(* compile_pdf spawns exactly max(runs, 1) compiler processes (one when    *)
(* runs <= 0), one after the other: at most one process of a request runs  *)
(* at a time, and pass N+1 is spawned only when pass N has exited.         *)
C3_SequentialPasses ==
    \A c \in Calls :
        LET ex == hist[c].exits
            sp == hist[c].spawns
            running == { p \in procs : p.call = c }
        IN  /\ Cardinality(running) <= 1
            /\ Len(sp) - Len(ex) = Cardinality(running)
            /\ \A i \in 1..Len(sp) : sp[i].pass = i
            /\ \A i \in 1..Len(ex) : ex[i].pass = i
            /\ \A p \in running : p.pass = Len(sp)
            /\ Active(c) => Len(sp) <= MaxOf(Req(c).runs, 1)
            /\ ( /\ CompileEnded(c)
                 /\ available
                 /\ \A i \in 1..Len(ex) : ex[i].status = 0 )
               => /\ Len(sp) = MaxOf(Req(c).runs, 1)
                  /\ Len(ex) = Len(sp)

(* a request for the largest number of passes, all of which exit with 0 *)
C3_Witness ==
    \E c \in Calls :
        /\ Done(c)
        /\ Req(c).runs = MaxRuns
        /\ Len(hist[c].exits) = MaxRuns
        /\ \A i \in 1..MaxRuns : hist[c].exits[i].status = 0
        /\ Response(c).kind = "ToolResult"

-----------------------------------------------------------------------------
(* C4: source-only mode. A service call with compile_pdf=False spawns no   *)
(* compiler process, whether or not the binary is available; when it       *)
(* returns, the source file holds exactly the text it was given and the    *)
(* result names no artifact.                                               *)
C4_SourceOnlyMode ==
    \A c \in Calls :
        (Active(c) /\ ~CompileArg(c)) =>
            /\ \A i \in 1..Len(hist[c].spawns) :
                    hist[c].spawns[i].attempt # Attempt(c)
            /\ { p \in procs : p.call = c } = {}
            /\ th[c].pc \notin {"compile_pdf", "run", "wait"}
            /\ th[c].pc \in {"return", "done"} /\ ~IsNone(th[c].tex_path) =>
                /\ exists(fs, Get(th[c].tex_path))
                /\ fs[Get(th[c].tex_path)] = Get(th[c].tex)
                /\ Get(th[c].tex) = RequestText(Req(c))
                /\ IsNone(th[c].pdf_path)
            /\ Done(c) /\ Resolves(Req(c)) => SourceOnly(c)

(* a compile=false request answered while the binary is available *)
C4_Witness ==
    \E c \in Calls :
        /\ Done(c) /\ available /\ ~Req(c).compile_pdf
        /\ Attempt(c) = 1
        /\ SourceOnly(c)
        /\ hist[c].spawns = <<>>

-----------------------------------------------------------------------------
(* What the caller of compile_pdf sees: a returned path, or an exception   *)
(* told apart by its type and by whether it carries a log.                 *)
Outcome(t) ==
    IF IsNone(t.exc)
    THEN IF IsNone(t.pdf_path) THEN "none" ELSE "Success"
    ELSE IF Get(t.exc).type = "FileNotFoundError" THEN "MissingBinary"
    ELSE IF Get(t.exc).type = "LatexCompileError"
         THEN IF IsNone(Get(t.exc).log) THEN "ArtifactNotProduced"
              ELSE "CompileFailure"
    ELSE "other"

(* the artifact expected of a job: its name with the artifact extension,   *)
(* in the working directory                                                *)
ExpectedArtifact(job) == Path("artifacts", job \o <<".", "p", "d", "f">>)

(* C5: every call of compile_pdf ends in exactly one of four outcomes:     *)
(* MissingBinary iff the binary was not found at construction;             *)
(* CompileFailure(log) iff some pass exits non-zero; ArtifactNotProduced   *)
(* iff all passes exit 0 and the expected artifact is not on disk;         *)
(* Success(artifactPath) otherwise.                                        *)
C5_Outcomes ==
    \A c \in Calls :
        CompileEnded(c) =>
            LET o == Outcome(th[c])
                ex == hist[c].exits
                someFailed == \E i \in 1..Len(ex) : ex[i].status # 0
                expected == ExpectedArtifact(Get(th[c].job))
            IN  /\ o \in {"MissingBinary", "CompileFailure",
                          "ArtifactNotProduced", "Success"}
                /\ IsNone(th[c].exc) # IsNone(th[c].pdf_path)
                /\ (o = "MissingBinary") <=> ~available
                /\ (o = "CompileFailure") <=> someFailed
                /\ (o = "ArtifactNotProduced") <=>
                        (available /\ ~someFailed /\ ~exists(fs, expected))
                /\ (o = "Success") <=>
                        (available /\ ~someFailed /\ exists(fs, expected))
                /\ o = "Success" => th[c].pdf_path = Some(expected)
                /\ o = "CompileFailure" =>
                        Get(th[c].exc).log = Some(Last(ex).stdout)

(* every pass exited with 0 and no PDF is on disk *)
C5_Witness ==
    \E c \in Calls :
        /\ CompileEnded(c)
        /\ Outcome(th[c]) = "ArtifactNotProduced"
        /\ Len(hist[c].exits) >= 1
        /\ \A i \in 1..Len(hist[c].exits) : hist[c].exits[i].status = 0

(* C6: a result carries an artifact path only when compilation was         *)
(* requested and compile_pdf ended in Success; on MissingBinary,           *)
(* CompileFailure and ArtifactNotProduced the service returns no result:   *)
(* it raises the failure to its caller.                                    *)
C6_ArtifactOnlyOnSuccess ==
    \A c \in Calls :
        Active(c) =>
            /\ ~IsNone(th[c].pdf_path) =>
                /\ Req(c).compile_pdf /\ CompileArg(c)
                /\ Outcome(th[c]) = "Success"
                /\ available
                /\ Len(hist[c].exits) >= 1
                /\ \A i \in 1..Len(hist[c].exits) : hist[c].exits[i].status = 0
            /\ ( CompileEnded(c) /\ Outcome(th[c]) # "Success" ) =>
                /\ IsNone(th[c].pdf_path)
                /\ th[c].pc \in {"except", "done"}
                /\ Done(c) => /\ Last(hist[c].caught) = Get(th[c].exc)
                              /\ Response(c).kind # "ToolResult"
            /\ ( Done(c) /\ Response(c).kind = "ToolResult" ) =>
                LET r == Response(c)
                IN  /\ ~IsNone(r.structured_content.pdf_path) =>
                            /\ ~IsNone(th[c].pdf_path)
                            /\ Req(c).compile_pdf
                            /\ Len(r.files) = 2
                            /\ exists(fs, r.files[2])
                    /\ IsNone(r.structured_content.pdf_path) =>
                            /\ IsNone(th[c].pdf_path)
                            /\ Len(r.files) = 1

(* a compiled request answered with its artifact *)
C6_Witness ==
    \E c \in Calls :
        /\ Done(c)
        /\ Response(c).kind = "ToolResult"
        /\ ~IsNone(Response(c).structured_content.pdf_path)

-----------------------------------------------------------------------------
(* C7: CompileFailure and ArtifactNotProduced are never degraded or        *)
(* retried: a request in which the service raises LatexCompileError calls  *)
(* the service exactly once and is answered with a ToolError, never with a *)
(* source-only result.                                                     *)
C7_CompileErrorsAreHard ==
    \A c \in Calls :
        LET caught == hist[c].caught
            compileErrors ==
                { i \in 1..Len(caught) : caught[i].type = "LatexCompileError" }
        IN  /\ compileErrors # {} =>
                /\ compileErrors = {1}
                /\ Len(caught) = 1
                /\ Attempt(c) = 1
                /\ Done(c)
                /\ Response(c).kind = "ToolError"
                /\ Response(c).message[1] = "pdflatex compilation failed: "
            /\ ( Active(c) /\ ~IsNone(th[c].exc)
                    /\ Get(th[c].exc).type = "LatexCompileError" ) =>
                /\ Attempt(c) = 1
                /\ th[c].pc \in {"except", "done"}

(* a request answered with a ToolError after ArtifactNotProduced *)
C7_Witness ==
    \E c \in Calls :
        /\ Done(c)
        /\ hist[c].caught # <<>>
        /\ hist[c].caught[1].type = "LatexCompileError"
        /\ IsNone(hist[c].caught[1].log)
        /\ Response(c).kind = "ToolError"

(* C8: MissingBinary triggers exactly one fallback attempt, made with      *)
(* compilation disabled: a request calls the render service at most twice, *)
(* a second call is made exactly when the first raised FileNotFoundError   *)
(* and compile=true was asked (with a ctx, once the warning is sent), the   *)
(* second call has compile_pdf=False and spawns no compiler process, and    *)
(* no failure is followed by a third call.                                 *)
C8_OneFallback ==
    \A c \in Calls :
        Active(c) =>
            LET calls == hist[c].svcCalls
                caught == hist[c].caught
            IN  /\ Len(calls) \in {1, 2}
                /\ Len(caught) <= Len(calls)
                /\ Len(calls) = 2 =>
                    /\ Req(c).compile_pdf
                    /\ calls[1].compile_pdf
                    /\ ~calls[2].compile_pdf
                    /\ calls[2].op = calls[1].op
                    /\ caught # <<>>
                    /\ caught[1].type = "FileNotFoundError"
                    /\ \A i \in 1..Len(hist[c].spawns) :
                            hist[c].spawns[i].attempt = 1
                    /\ th[c].pc \notin {"compile_pdf", "run", "wait"}
                /\ ( caught # <<>> /\ caught[1].type = "FileNotFoundError"
                        /\ Req(c).compile_pdf ) =>
                        Len(calls) = 2 \/ th[c].pc = "warned"
                /\ ( caught # <<>> /\ caught[1].type # "FileNotFoundError" ) =>
                        Len(calls) = 1 /\ Done(c)

(* the fallback call of a request has returned *)
C8_Witness ==
    \E c \in Calls :
        /\ Done(c)
        /\ Len(hist[c].svcCalls) = 2
        /\ Len(hist[c].writes) = 2
        /\ hist[c].caught = <<MissingPdflatex>>

(* C9: a template name that does not resolve is surfaced at once as        *)
(* TemplateNotFound: no job name is derived, no source file is written, no *)
(* compiler process is spawned, the service is called once, and the        *)
(* fallback for a missing binary is not entered, warning included, even    *)
(* when the binary is absent too.                                          *)
C9_TemplateNotFound ==
    \A c \in Calls :
        ( Active(c) /\ ~Resolves(Req(c)) ) =>
            /\ hist[c].named = <<>>
            /\ hist[c].writes = <<>>
            /\ hist[c].spawns = <<>>
            /\ hist[c].warnings = <<>>
            /\ Attempt(c) = 1
            /\ th[c].pc \in {"render_template", "except", "done"}
            /\ IsNone(th[c].job) /\ IsNone(th[c].tex_path)
            /\ th[c].pc \in {"except", "done"} =>
                    Get(th[c].exc).type = "TemplateNotFound"
            /\ Done(c) =>
                /\ Response(c) =
                      [ kind |-> "ToolError",
                        message |-> <<"Template '", Get(Req(c).template_name),
                                      "' not found">> ]
                /\ Len(hist[c].caught) = 1
                /\ hist[c].caught[1].type = "TemplateNotFound"

(* an unknown template asked to be compiled while the binary is absent *)
C9_Witness ==
    \E c \in Calls :
        /\ Done(c) /\ ~available
        /\ Req(c).tool = "render_template_document"
        /\ Req(c).compile_pdf
        /\ ~Resolves(Req(c))
        /\ Response(c).kind = "ToolError"

(* C10: when a compiler pass exits non-zero, the captured output of that   *)
(* pass is surfaced verbatim, as the failure's log, to the caller of the   *)
(* render operation, the caller of the render tools included: the output   *)
(* is part of the failure the tool answers with.                           *)
C10_LogSurfaced ==
    \A c \in Calls :
        ( Done(c) /\ hist[c].exits # <<>> /\ Last(hist[c].exits).status # 0 ) =>
            /\ Get(th[c].exc).log = Some(Last(hist[c].exits).stdout)
            /\ Response(c).kind = "ToolError"
            /\ \E i \in 1..Len(Response(c).message) :
                    Response(c).message[i] = Last(hist[c].exits).stdout

-----------------------------------------------------------------------------
(* C11: a render call overwrites what an earlier call left under the same  *)
(* job name: when a request has been answered with a success, the source   *)
(* file it names holds the text of this request, and the artifact it       *)
(* names, if any, was compiled from the text of this request, never left   *)
(* over from an earlier call.                                              *)
C11_OverwriteSemantics ==
    \A c \in Calls :
        ( Done(c) /\ Response(c).kind = "ToolResult" ) =>
            /\ fs[Response(c).files[1]] = RequestText(Req(c))
            /\ Len(Response(c).files) = 2 =>
                   fs[Response(c).files[2]] = [pdf_of |-> Some(RequestText(Req(c)))]

-----------------------------------------------------------------------------
(* Concurrent requests. The tools hand every service call to a worker      *)
(* thread (server.py: anyio.to_thread.run_sync), and neither the service   *)
(* nor the renderer takes a lock: the steps of two requests interleave     *)
(* freely. A request stays in the state after its answer, so that it can   *)
(* be compared with the other one.                                         *)

(* the job names the concurrent callers supply: two of them differ and     *)
(* are the same after sanitize_jobname                                     *)
ConcJobnames == { Some(<<".", ".", "/", "j", "!">>), Some(<<"j">>), Some(<<"m">>) }

ConcRuns == {1, 2}

(* each caller sends a text of its own *)
ConcTex(c) == IF c = 1 THEN "texA" ELSE "texB and more"

(* render_latex_document, called while another request may be running *)
concurrent_render_latex_document(c) ==
    \E jobname \in ConcJobnames, compile \in BOOLEAN, runs \in ConcRuns,
       ctx \in BOOLEAN :
        Dispatch(c, [ jobname |-> jobname, context |-> None,
                      template_name |-> None, tex |-> Some(ConcTex(c)),
                      compile_pdf |-> compile, tool |-> "render_latex_document",
                      runs |-> runs, ctx |-> ctx ])

NextConc ==
    \E c \in Calls :
        \/ concurrent_render_latex_document(c)
        \/ render_tex(c)
        \/ write_tex(c)
        \/ write_text_data(c)
        \/ compile_pdf(c)
        \/ spawn_pass(c)
        \/ pass_exit(c)
        \/ check_pdf(c)
        \/ tool_return(c)
        \/ tool_except(c)
        \/ tool_retry(c)

SpecConc == Init /\ [][NextConc]_vars

-----------------------------------------------------------------------------
(* the job name a request that supplies a name is rendered under *)
SuppliedJob(request) == sanitize_jobname(Get(request.jobname))

(* the caller of request c supplied a job name (not None, not empty) *)
Supplied(c) ==
    /\ Active(c)
    /\ ~IsNone(Req(c).jobname)
    /\ Get(Req(c).jobname) # <<>>

(* Request c is as if it ran alone: the source file it wrote holds its     *)
(* text, the compiler processes it started read its text, and the          *)
(* artifact of its success was compiled from its text.                     *)
Isolated(c) ==
    /\ ~IsNone(th[c].tex_path) => fs[Get(th[c].tex_path)] = RequestText(Req(c))
    /\ \A p \in procs : p.call = c => p.input = Some(RequestText(Req(c)))
    /\ ( Done(c) /\ Response(c).kind = "ToolResult"
                 /\ Len(Response(c).files) = 2 ) =>
            fs[Response(c).files[2]] = [pdf_of |-> Some(RequestText(Req(c)))]

(* C12 as stated: of two concurrent render calls whose callers supplied    *)
(* distinct job names, in every interleaving neither affects the other:    *)
(* each source file holds its own call's text and each successful          *)
(* artifact was compiled from its own call's text.                         *)
C12_AsStated ==
    \A c, d \in Calls :
        ( c # d /\ Supplied(c) /\ Supplied(d)
                /\ Req(c).jobname # Req(d).jobname ) => Isolated(c)

(* C12, amended: the same for two concurrent render calls whose supplied   *)
(* job names are still distinct after sanitize_jobname.                    *)
C12_DistinctJobsIsolated ==
    \A c, d \in Calls :
        ( c # d /\ Supplied(c) /\ Supplied(d)
                /\ SuppliedJob(Req(c)) # SuppliedJob(Req(d)) ) => Isolated(c)

(* one request has been answered with its artifact while the other, under  *)
(* another job name, has a compiler process running                        *)
C12_Witness ==
    \E c, d \in Calls :
        /\ c # d /\ Supplied(c) /\ Supplied(d)
        /\ SuppliedJob(Req(c)) # SuppliedJob(Req(d))
        /\ Done(c) /\ Response(c).kind = "ToolResult"
        /\ Len(Response(c).files) = 2
        /\ th[d].pc = "wait"
        /\ \E p \in procs : p.call = d
        /\ hist[d].writes # <<>>

-----------------------------------------------------------------------------
(* the calls that share the job name of call c *)
Sharing(c) ==
    { e \in Calls : Supplied(e) /\ SuppliedJob(Req(e)) = SuppliedJob(Req(c)) }

(* what a reader can find in the source file of call c: nothing (the file  *)
(* is open and not yet written), the text of a call that shares the name,  *)
(* or the text of one written over the start of the text of another        *)
DiskTexts(c) ==
    {""} \cup { Overlay(RequestText(Req(e)), RequestText(Req(f))) :
                    e \in Sharing(c), f \in Sharing(c) }

(* C13 as stated: two concurrent render calls sharing a job name are not   *)
(* serialized, and the last source write before a compiler pass wins: a    *)
(* request that is about to write its source, or to start a compiler pass, *)
(* can always do so, and the artifact of a successful call was compiled    *)
(* from the whole text of one of the calls that share its job name.        *)
C13_AsStated ==
    \A c \in Calls :
        /\ th[c].pc = "write_tex" => ENABLED write_tex(c)
        /\ ( th[c].pc = "run" /\ th[c].passNo < NumPasses(Get(th[c].args).runs) )
                => ENABLED spawn_pass(c)
        /\ ( Supplied(c) /\ Done(c) /\ Response(c).kind = "ToolResult"
                         /\ Len(Response(c).files) = 2 ) =>
                \E e \in Sharing(c) :
                    fs[Response(c).files[2]] =
                            [pdf_of |-> Some(RequestText(Req(e)))]

(* C13: two concurrent render calls sharing a job name are not serialized: *)
(* a request that is about to open or to write its source, or to start a   *)
(* compiler pass, can always do so, whatever the other request is doing;   *)
(* a pass reads what is on disk when it is started, and the artifact of a  *)
(* successful call was compiled from one of: the text of a call that       *)
(* shares its job name (not necessarily its own), the empty file such a    *)
(* call has opened and not yet written, or the text of one such call       *)
(* written over the start of the longer text of another.                   *)
C13_NotSerialized ==
    \A c \in Calls :
        /\ th[c].pc = "write_tex" => ENABLED write_tex(c)
        /\ th[c].pc = "write_text" => ENABLED write_text_data(c)
        /\ ( th[c].pc = "run" /\ th[c].passNo < NumPasses(Get(th[c].args).runs) )
                => ENABLED spawn_pass(c)
        /\ \A p \in procs : p.call = c /\ Supplied(c) =>
                \E t \in DiskTexts(c) : p.input = Some(t)
        /\ ( Supplied(c) /\ Done(c) /\ Response(c).kind = "ToolResult"
                         /\ Len(Response(c).files) = 2 ) =>
                \E t \in DiskTexts(c) :
                    fs[Response(c).files[2]] = [pdf_of |-> Some(t)]

(* a call has succeeded with an artifact compiled from the start of its    *)
(* own text followed by the rest of the other call's longer text           *)
C13_TornWitness ==
    \E c, d \in Calls :
        /\ c # d /\ Supplied(c) /\ d \in Sharing(c)
        /\ Done(c) /\ Response(c).kind = "ToolResult"
        /\ Len(Response(c).files) = 2
        /\ fs[Response(c).files[2]] = [pdf_of |-> Some("texA and more")]

(* a call has succeeded and the artifact it names was compiled from the    *)
(* text of the other call, which supplied the same job name and is still   *)
(* running                                                                 *)
C13_Witness ==
    \E c, d \in Calls :
        /\ c # d /\ Supplied(c) /\ Supplied(d)
        /\ Req(c).jobname = Req(d).jobname
        /\ RequestText(Req(c)) # RequestText(Req(d))
        /\ Done(c) /\ Response(c).kind = "ToolResult"
        /\ Len(Response(c).files) = 2
        /\ fs[Response(c).files[2]] = [pdf_of |-> Some(RequestText(Req(d)))]
        /\ th[d].pc \in {"compile_pdf", "run", "wait"}

-----------------------------------------------------------------------------
(* sanitize_jobname on its own: it is applied to every string up to        *)
(* MaxLen characters over ProbeChars, and then to what it returned.        *)

MaxLen == 3

(* characters of each kind sanitize_jobname tells apart: an ASCII letter,  *)
(* a letter that is not ASCII, the two characters kept besides letters     *)
(* and digits, a stripped character and one that is replaced               *)
ProbeChars == {"a", "U+00E9", "-", "_", ".", " "}

ProbeInputs == UNION { [1..n -> ProbeChars] : n \in 0..MaxLen }

InitSanitize ==
    /\ probe \in { [arg |-> s, once |-> None, twice |-> None] : s \in ProbeInputs }
    /\ tex_inputs = None
    /\ available = TRUE
    /\ env = [workdir |-> TRUE, binary |-> TRUE]
    /\ fs = << >>
    /\ procs = {}
    /\ th = [ c \in Calls |-> IdleThread ]
    /\ hist = [ c \in Calls |-> NoHistory ]

(* job = sanitize_jobname(value) *)
sanitize_call ==
    /\ IsNone(probe.once)
    /\ probe' = [probe EXCEPT !.once = Some(sanitize_jobname(probe.arg))]
    /\ UNCHANGED <<tex_inputs, available, env, fs, procs, th, hist>>

(* sanitize_jobname(job), on the job name of a result *)
sanitize_again ==
    /\ ~IsNone(probe.once)
    /\ IsNone(probe.twice)
    /\ probe' = [probe EXCEPT !.twice = Some(sanitize_jobname(Get(probe.once)))]
    /\ UNCHANGED <<tex_inputs, available, env, fs, procs, th, hist>>

NextSanitize == sanitize_call \/ sanitize_again

SpecSanitize == InitSanitize /\ [][NextSanitize]_vars

(* the characters the specification allows in a job name: [A-Za-z0-9_-] *)
PortableChars == AsciiAlnum \cup {"-", "_"}

(* C14: for every input string, characters that are not ASCII included,    *)
(* sanitize_jobname returns a non-empty name that has no character         *)
(* outside [A-Za-z0-9_-] and neither starts nor ends with "_" or "."; an   *)
(* input that reduces to nothing (no character of it is an ASCII letter,   *)
(* an ASCII digit or "-") yields "document".                               *)
C14_SanitizeTotal ==
    ~IsNone(probe.once) =>
        LET r == Get(probe.once)
        IN  /\ r # <<>>
            /\ \A i \in 1..Len(r) : r[i] \in PortableChars
            /\ r[1] \notin {"_", "."}
            /\ r[Len(r)] \notin {"_", "."}
            /\ ( \A i \in 1..Len(probe.arg) :
                     probe.arg[i] \notin AsciiAlnum \cup {"-"} ) => r = document

(* C15: sanitize_jobname is idempotent: applied to a name it returned, it  *)
(* returns that name.                                                      *)
C15_SanitizeIdempotent ==
    ~IsNone(probe.twice) => Get(probe.twice) = Get(probe.once)

(* a string with a space, which sanitize_jobname replaced and stripped     *)
(* and made another name than the default of, has been sanitized twice     *)
C15_Witness ==
    /\ ~IsNone(probe.twice)
    /\ Get(probe.once) # probe.arg
    /\ Get(probe.once) # document
    /\ Len(Get(probe.once)) < Len(probe.arg)
    /\ \E i \in 1..Len(probe.arg) : probe.arg[i] = " "

-----------------------------------------------------------------------------
(* the render_latex_document request that asks for the expansion of a      *)
(* render_template_document request's template, with the same parameters   *)
TwinRequest(request) ==
    [ request EXCEPT
        !.tool = "render_latex_document",
        !.tex = Some(TemplateRender(Get(request.template_name),
                                    Get(request.context))),
        !.template_name = None,
        !.context = None ]

(* the worker of a request at the first statement of render_tex, called    *)
(* by the tool with this compile_pdf                                       *)
AtRenderTex(request, compile) ==
    [ IdleThread EXCEPT
        !.pc = "render_tex",
        !.req = Some(request),
        !.tex = request.tex,
        !.args = Some(ServiceArgs(request, compile)) ]

(* "simple.tex.j2" expanded with title = "Example" *)
ExampleSection == "\\section*{ Example }"

(* C16: render_template(template, context, jobname, compile_pdf, runs)     *)
(* behaves as render_tex(expansion, jobname, compile_pdf, runs): when a    *)
(* template request whose template resolves enters render_tex, its worker  *)
(* is in the state in which the worker of the request for the expanded     *)
(* text with the same parameters enters it; the text is the expansion      *)
(* from then on; and with compile_pdf=False the call writes the expanded   *)
(* text and returns no artifact path.                                      *)
C16_TemplateDelegates ==
    \A c \in Calls :
        ( Active(c) /\ Req(c).tool = "render_template_document"
                    /\ Resolves(Req(c)) ) =>
            /\ th[c].pc = "render_tex" =>
                   [ th[c] EXCEPT !.req = Some(TwinRequest(Req(c))) ]
                        = AtRenderTex(TwinRequest(Req(c)), CompileArg(c))
            /\ th[c].pc # "render_template" =>
                   th[c].tex = Some(ExampleSection)
            /\ ( Done(c) /\ ~Req(c).compile_pdf ) =>
                   /\ SourceOnly(c)
                   /\ fs[Response(c).files[1]] = ExampleSection
                   /\ hist[c].spawns = <<>>

(* a template request with compile_pdf=False and two passes asked for has  *)
(* been answered with the expanded source and no artifact                  *)
C16_Witness ==
    \E c \in Calls :
        /\ Done(c)
        /\ Req(c).tool = "render_template_document"
        /\ Resolves(Req(c))
        /\ ~Req(c).compile_pdf
        /\ Req(c).runs = 2
        /\ SourceOnly(c)
        /\ fs[Response(c).files[1]] = ExampleSection

-----------------------------------------------------------------------------
(* The environment changes while the server runs: pdflatex is removed from *)
(* PATH or installed, the artifacts directory is deleted with its files.   *)
(* Nothing of the server notices: _pdflatex_available was set in           *)
(* __post_init__, which also made the directory.                           *)

binary_removed ==
    /\ env.binary
    /\ env' = [env EXCEPT !.binary = FALSE]
    /\ UNCHANGED <<probe, tex_inputs, available, fs, procs, th, hist>>

binary_installed ==
    /\ ~env.binary
    /\ env' = [env EXCEPT !.binary = TRUE]
    /\ UNCHANGED <<probe, tex_inputs, available, fs, procs, th, hist>>

workdir_removed ==
    /\ env.workdir
    /\ env' = [env EXCEPT !.workdir = FALSE]
    /\ fs' = << >>
    /\ UNCHANGED <<probe, tex_inputs, available, procs, th, hist>>

(* the job names and pass counts of the requests made while it changes *)
EnvJobnames == { None, Some(<<"j">>) }
EnvRuns == {1, 2}

(* render_latex_document, called in an environment that may have changed *)
render_latex_document_later(c) ==
    \E jobname \in EnvJobnames, compile \in BOOLEAN, runs \in EnvRuns,
       ctx \in BOOLEAN :
        Dispatch(c, [ jobname |-> jobname, context |-> None,
                      template_name |-> None, tex |-> Some("texA"),
                      compile_pdf |-> compile, tool |-> "render_latex_document",
                      runs |-> runs, ctx |-> ctx ])

NextEnv ==
    \/ binary_removed
    \/ binary_installed
    \/ workdir_removed
    \/ \E c \in Calls :
        \/ Turn(c) /\ render_latex_document_later(c)
        \/ render_tex(c)
        \/ write_tex(c)
        \/ write_text_data(c)
        \/ compile_pdf(c)
        \/ spawn_pass(c)
        \/ pass_exit(c)
        \/ check_pdf(c)
        \/ tool_return(c)
        \/ tool_except(c)
        \/ tool_retry(c)
        \/ respond(c)

SpecEnv == Init /\ [][NextEnv]_vars

(* C17: availability is computed once, at construction, and never changes: *)
(* no step of the server and no later change of the environment alters     *)
(* it, and every compile_pdf call decides from that value, before any      *)
(* compiler process of the call is started: it raises the missing-binary   *)
(* FileNotFoundError exactly when the value is false, and starts passes    *)
(* only when it is true.                                                   *)
C17_AvailabilityFixed ==
    /\ [][available' = available]_vars
    /\ [](\A c \in Calls :
            /\ ( ~IsNone(th[c].exc) /\ Get(th[c].exc) = MissingPdflatex ) =>
                   /\ ~available
                   /\ \A i \in 1..Len(hist[c].spawns) :
                          hist[c].spawns[i].attempt # Attempt(c)
            /\ th[c].pc \in {"run", "wait"} => available
            /\ ( CompileEnded(c) /\ ~available ) =>
                   /\ th[c].pc = "except" => Get(th[c].exc) = MissingPdflatex
                   /\ th[c].pc # "return")

(* pdflatex was installed after construction: it is on PATH, and a         *)
(* compile_pdf call has raised the missing-binary error all the same       *)
C17_Witness ==
    \E c \in Calls :
        /\ ~available /\ env.binary
        /\ th[c].pc = "except"
        /\ Get(th[c].exc) = MissingPdflatex
        /\ CompileArg(c)

(* C20: the missing-binary degradation (the retry without compiling and    *)
(* its advisory) is entered only when the availability check that precedes *)
(* every spawn reported the binary absent; never because starting or       *)
(* running a compiler pass failed, as when the binary disappears after     *)
(* construction, and never because the source could not be written.        *)
C20_DegradationOnlyWhenAbsent ==
    \A c \in Calls :
        ( Active(c) /\ Attempt(c) > 1 ) =>
            /\ ~available
            /\ hist[c].caught[1] = MissingPdflatex
            /\ hist[c].spawns = <<>>
            /\ Len(hist[c].writes) >= 1

-----------------------------------------------------------------------------
(* a name that is a single path component without a suffix of its own *)
FlatName(name) ==
    \A i \in 1..Len(name) : name[i] \notin {"/", ".", " "}

(* C18: the source path of a render call is exactly                        *)
(* work_dir/<jobname>.tex and the artifact path of a success exactly       *)
(* work_dir/<jobname>.pdf, where jobname is the sanitized name the result  *)
(* carries; both files lie directly in work_dir, whatever name the caller  *)
(* supplied, and the paths are a function of the job name alone.           *)
C18_FlatLayout ==
    \A c \in Calls :
        /\ ~IsNone(th[c].job) =>
               /\ FlatName(Get(th[c].job))
               /\ \E token \in TokenHex :
                      Get(th[c].job) =
                          sanitize_jobname(JobnameOrDefault(Req(c).jobname, token))
        /\ ~IsNone(th[c].tex_path) =>
               /\ Get(th[c].tex_path) =
                      Path(ARTIFACTS_DIR, Get(th[c].job) \o TexSuffix)
               /\ Last(hist[c].writes).path = Get(th[c].tex_path)
        /\ \A p \in procs : p.call = c =>
               /\ p.cwd = ARTIFACTS_DIR
               /\ p.arg = Get(th[c].job) \o TexSuffix
        /\ ( Done(c) /\ Response(c).kind = "ToolResult" ) =>
               LET job == Response(c).structured_content.jobname
               IN  /\ job = Get(th[c].job)
                   /\ Response(c).files[1] = Path(ARTIFACTS_DIR, job \o TexSuffix)
                   /\ Len(Response(c).files) = 2 =>
                          Response(c).files[2] =
                              Path(ARTIFACTS_DIR, job \o PdfSuffix)
                   /\ Response(c).structured_content.tex_path =
                          <<ARTIFACTS_DIR, "/">> \o job \o TexSuffix

(* a request whose caller supplied a name that points out of the           *)
(* directory has succeeded with both files                                 *)
C18_Witness ==
    \E c \in Calls :
        /\ Done(c) /\ Response(c).kind = "ToolResult"
        /\ Req(c).jobname = Some(<<".", ".", "/", "j", "!">>)
        /\ Response(c).files =
              << Path(ARTIFACTS_DIR, <<"j", ".", "t", "e", "x">>),
                 Path(ARTIFACTS_DIR, <<"j", ".", "p", "d", "f">>) >>
        /\ exists(fs, Response(c).files[1])
        /\ exists(fs, Response(c).files[2])

-----------------------------------------------------------------------------
(* The steps of a service call, as positions of its worker: Start is       *)
(* "render_tex", Named is "write_tex" and, with the file open,             *)
(* "write_text", Written is the position the write                         *)
(* leaves (Skipped: "return" without compiling; Compiling: "compile_pdf",  *)
(* "run", "wait"), Succeeded is "return" with an artifact, Failed is       *)
(* "except".                                                               *)
CallSteps ==
    { <<"render_template", "render_tex">>, <<"render_template", "except">>,
      <<"render_tex", "write_tex">>, <<"write_tex", "write_text">>,
      <<"write_text", "return">>, <<"write_text", "compile_pdf">>,
      <<"compile_pdf", "run">>, <<"compile_pdf", "except">>,
      <<"run", "wait">>, <<"wait", "run">>, <<"wait", "except">>,
      <<"run", "return">>, <<"run", "except">> }

(* the steps of a tool around its service calls: the call, the answer      *)
(* after a return or an exception, the retry, the end of the request       *)
ToolSteps ==
    { <<"idle", "render_template">>, <<"idle", "render_tex">>,
      <<"return", "done">>, <<"except", "done">>,
      <<"except", "render_template">>, <<"except", "render_tex">>,
      <<"except", "warned">>,
      <<"warned", "render_template">>, <<"warned", "render_tex">>,
      <<"done", "closed">> }

(* the worker of request c is in the service call and past its start *)
Named(c) ==
    th[c].pc \in {"write_tex", "write_text", "compile_pdf", "run", "wait", "return"}
Written(c) == th[c].pc \in {"compile_pdf", "run", "wait", "return"}

(* C19: within each render call the steps occur in the order               *)
(* Start -> Named -> Written -> (Skipped | Compiling -> (Succeeded |       *)
(* Failed)): every step of a worker is one of CallSteps or ToolSteps; the  *)
(* job name is derived once per service call and the source written once   *)
(* per service call, before any compiler pass of the call is started; the  *)
(* call ends in exactly one of Skipped, Succeeded and Failed; and a        *)
(* request starts from nothing but its arguments, whatever the requests    *)
(* before it did.                                                          *)
C19_CallOrder ==
    /\ [][ \A c \in Calls :
             /\ th'[c].pc # th[c].pc =>
                    <<th[c].pc, th'[c].pc>> \in CallSteps \cup ToolSteps
             /\ th[c].pc = "idle" /\ th'[c].pc # "idle" =>
                    /\ th'[c] = [ IdleThread EXCEPT
                                    !.pc = th'[c].pc,
                                    !.req = th'[c].req,
                                    !.tex = Get(th'[c].req).tex,
                                    !.args = Some(ServiceArgs(Get(th'[c].req),
                                               Get(th'[c].req).compile_pdf)) ]
                    /\ hist'[c] = [ NoHistory EXCEPT
                                      !.svcCalls = hist'[c].svcCalls ]
                    /\ Len(hist'[c].svcCalls) = 1 ]_vars
    /\ [](\A c \in Calls :
            Active(c) =>
                /\ Len(hist[c].named) =
                       (IF Named(c) THEN Attempt(c) ELSE Attempt(c) - 1)
                          + (IF th[c].pc \in {"except", "warned", "done"}
                                  /\ ~IsNone(th[c].job) THEN 1 ELSE 0)
                /\ Len(hist[c].writes) =
                       (IF Written(c) THEN Attempt(c) ELSE Attempt(c) - 1)
                          + (IF th[c].pc \in {"except", "warned", "done"}
                                  /\ ~IsNone(th[c].tex_path) THEN 1 ELSE 0)
                /\ \A i \in 1..Len(hist[c].spawns) :
                       hist[c].spawns[i].attempt <= Len(hist[c].writes)
                /\ \A p \in procs : p.call = c =>
                       /\ Len(hist[c].writes) = Attempt(c)
                       /\ Last(hist[c].writes).text = Get(th[c].tex)
                /\ th[c].pc = "return" =>
                       /\ IsNone(th[c].exc)
                       /\ IsNone(th[c].pdf_path) <=> ~CompileArg(c)
                /\ th[c].pc = "except" =>
                       /\ ~IsNone(th[c].exc)
                       /\ IsNone(th[c].pdf_path))

(* the second request has succeeded after two passes, after the first     *)
(* request was answered: it was named once, written once, and started its  *)
(* passes after the write                                                  *)
C19_Witness ==
    /\ th[1].pc = "closed"
    /\ Done(2) /\ Response(2).kind = "ToolResult"
    /\ Len(hist[2].named) = 1
    /\ Len(hist[2].writes) = 1
    /\ Len(hist[2].spawns) = 2
    /\ Len(Response(2).files) = 2

-----------------------------------------------------------------------------
(* the source files request c has written *)
WrittenPaths(c) == { hist[c].writes[i].path : i \in 1..Len(hist[c].writes) }

(* C21: when a tool request takes the missing-binary fallback, the retry   *)
(* uses the job name and the source path of the first attempt, whether or  *)
(* not the caller supplied a job name: the request leaves exactly one      *)
(* source file, and the source path it returns is that file, holding the   *)
(* request's text.                                                         *)
C21_FallbackSameJob ==
    \A c \in Calls :
        ( Done(c) /\ Attempt(c) = 2 /\ Response(c).kind = "ToolResult" ) =>
            /\ Len(hist[c].named) = 2
            /\ hist[c].named[1] = hist[c].named[2]
            /\ Cardinality(WrittenPaths(c)) = 1
            /\ WrittenPaths(c) = { Response(c).files[1] }
            /\ fs[Response(c).files[1]] = RequestText(Req(c))

-----------------------------------------------------------------------------
(* The job name of render_tex on its own: it is resolved for no name, and  *)
(* for every string up to MaxLen characters over ProbeChars, with each     *)
(* value of the random token, and the result is sanitized once more.       *)

InitResolve ==
    /\ probe \in { [token |-> t, jobname |-> n, job |-> None, again |-> None] :
                     n \in {None} \cup { Some(s) : s \in ProbeInputs },
                     t \in TokenHex }
    /\ tex_inputs = None
    /\ available = TRUE
    /\ env = [workdir |-> TRUE, binary |-> TRUE]
    /\ fs = << >>
    /\ procs = {}
    /\ th = [ c \in Calls |-> IdleThread ]
    /\ hist = [ c \in Calls |-> NoHistory ]

(* job = sanitize_jobname(jobname or self._default_jobname()) *)
resolve_jobname ==
    /\ IsNone(probe.job)
    /\ probe' = [probe EXCEPT
                   !.job = Some(sanitize_jobname(
                                  JobnameOrDefault(probe.jobname, probe.token)))]
    /\ UNCHANGED <<tex_inputs, available, env, fs, procs, th, hist>>

(* sanitize_jobname(job), on the job name of the result *)
resolve_again ==
    /\ ~IsNone(probe.job)
    /\ IsNone(probe.again)
    /\ probe' = [probe EXCEPT !.again = Some(sanitize_jobname(Get(probe.job)))]
    /\ UNCHANGED <<tex_inputs, available, env, fs, procs, th, hist>>

NextResolve == resolve_jobname \/ resolve_again

SpecResolve == InitResolve /\ [][NextResolve]_vars

(* no character of the name is kept by sanitize_jobname except, possibly,  *)
(* ones it strips                                                          *)
Unsanitizable(name) ==
    \A i \in 1..Len(name) : ~isalnum(name[i]) /\ name[i] # "-"

(* the name is "doc_" and the hex digits of the token *)
Generated(job, token) ==
    /\ Len(job) = 4 + 2 * TokenBytes
    /\ SubSeq(job, 1, 4) = <<"d", "o", "c", "_">>
    /\ SubSeq(job, 5, Len(job)) = token

(* C22 as stated: whenever the caller supplies a job name, the empty       *)
(* string included, the job name of the result is sanitize_jobname of the  *)
(* supplied name, so that an empty or unsanitizable name gives "document"; *)
(* a random name, "doc_" and hex digits, is generated only when no name    *)
(* is given, and sanitize_jobname leaves it unchanged.                     *)
C22_AsStated ==
    ~IsNone(probe.job) =>
        /\ ~IsNone(probe.jobname) =>
               /\ Get(probe.job) = sanitize_jobname(Get(probe.jobname))
               /\ Unsanitizable(Get(probe.jobname)) => Get(probe.job) = document
        /\ Generated(Get(probe.job), probe.token) => IsNone(probe.jobname)
        /\ ( IsNone(probe.jobname) /\ ~IsNone(probe.again) ) =>
               Get(probe.again) = Get(probe.job)

(* C22, amended: whenever the caller supplies a job name that is not the   *)
(* empty string, the job name of the result is sanitize_jobname of the     *)
(* supplied name, so that an unsanitizable name gives "document"; a random *)
(* name, "doc_" and hex digits, is generated when no name is given and     *)
(* when the empty string is given, and only then, and sanitize_jobname     *)
(* leaves it unchanged.                                                    *)
C22_JobnameResolution ==
    ~IsNone(probe.job) =>
        LET absent == IsNone(probe.jobname) \/ Get(probe.jobname) = <<>>
        IN  /\ ~absent =>
                   /\ Get(probe.job) = sanitize_jobname(Get(probe.jobname))
                   /\ Unsanitizable(Get(probe.jobname)) =>
                          Get(probe.job) = document
            /\ Generated(Get(probe.job), probe.token) <=> absent
            /\ ( absent /\ ~IsNone(probe.again) ) =>
                   Get(probe.again) = Get(probe.job)

(* the empty string was given, a name was generated for it, and            *)
(* sanitize_jobname has left that name as it was                           *)
C22_Witness ==
    /\ probe.jobname = Some(<<>>)
    /\ ~IsNone(probe.again)
    /\ Get(probe.job) = <<"d", "o", "c", "_", "f", "f", "f", "f", "f", "f", "f", "f">>
    /\ Get(probe.again) = Get(probe.job)

-----------------------------------------------------------------------------
(* The public methods of LatexRenderer called on their own. compile_pdf is *)
(* given the path of a source file that is already there: in the working   *)
(* directory, or in another directory. One file name exists in both        *)
(* directories with different text, one only outside the working           *)
(* directory. render and write_tex are given a name as it is, not          *)
(* sanitized: a plain one, one with a space, one that leads out of the     *)
(* working directory, one that names a directory below it and an absolute  *)
(* one. The renderer is built with or without extra input directories.     *)

OTHER_DIR == "elsewhere"

SourceJ == <<"j">> \o TexSuffix
SourceM == <<"m">> \o TexSuffix

CompilePaths ==
    { Path(ARTIFACTS_DIR, SourceJ), Path(OTHER_DIR, SourceJ), Path(OTHER_DIR, SourceM) }

CompileRuns == 0..(MaxRuns - 1)

DirectNames ==
    { <<"j">>, <<" ", "j">>, <<".", ".", "/", "j", "!">>, <<"a", "/", "b">>,
      <<"/", "j">> }

DirectTex == "texC"

DirectRuns == {1, 2}

TexInputsChoices ==
    { None, Some(<<>>), Some(<<"templates">>), Some(<<"templates", "styles">>) }

SourceFiles ==
    [ p \in CompilePaths |-> IF p.parent = ARTIFACTS_DIR THEN "texA" ELSE "texB" ]

InitCompile ==
    /\ probe = None
    /\ tex_inputs \in TexInputsChoices
    /\ available \in BOOLEAN
    /\ env = [workdir |-> TRUE, binary |-> available]
    /\ fs = SourceFiles
    /\ procs = {}
    /\ th = [ c \in Calls |-> IdleThread ]
    /\ hist = [ c \in Calls |-> NoHistory ]

(* renderer.compile_pdf(tex_path, runs=runs) is called *)
renderer_compile_pdf(c) ==
    /\ th[c].pc = "idle"
    /\ \E tex_path \in CompilePaths, runs \in CompileRuns :
        /\ th' = [th EXCEPT ![c].tex_path = Some(tex_path),
                            ![c].pc = "compile_pdf",
                            ![c].args = Some([ jobname |-> None, compile_pdf |-> TRUE,
                                               runs |-> runs ])]
        /\ hist' = [hist EXCEPT ![c].svcCalls =
                      <<[compile_pdf |-> TRUE, op |-> "compile_pdf"]>>]
    /\ UNCHANGED <<probe, tex_inputs, available, env, fs, procs>>

(* a method of the renderer is called with tex and a name: straight into   *)
(* write_tex, and on to compile_pdf when the method is render              *)
DirectCall(c, op, name, runs) ==
    /\ th[c].pc = "idle"
    /\ th' = [th EXCEPT ![c].pc = "write_tex",
                        ![c].tex = Some(DirectTex),
                        ![c].job = Some(name),
                        ![c].args = Some([ jobname |-> Some(name),
                                           compile_pdf |-> (op = "render"),
                                           runs |-> runs ])]
    /\ hist' = [hist EXCEPT ![c].svcCalls =
                  <<[compile_pdf |-> (op = "render"), op |-> op]>>]
    /\ UNCHANGED <<probe, tex_inputs, available, env, fs, procs>>

(* renderer.render(tex, jobname, runs) is called:                          *)
(* tex_path = self.write_tex(tex=tex, name=jobname);                       *)
(* return self.compile_pdf(tex_path=tex_path, runs=runs)                   *)
renderer_render(c) ==
    \E name \in DirectNames, runs \in DirectRuns : DirectCall(c, "render", name, runs)

(* renderer.write_tex(tex, name) is called *)
renderer_write_tex(c) ==
    \E name \in DirectNames : DirectCall(c, "write_tex", name, 1)

(* write_tex called on its own returns tex_path, or its exception reaches  *)
(* the caller                                                              *)
write_tex_ends(c) ==
    /\ th[c].pc \in {"return", "except"}
    /\ Last(hist[c].svcCalls).op = "write_tex"
    /\ th' = [th EXCEPT
                ![c].response =
                    Some(IF th[c].pc = "return"
                         THEN [path |-> Get(th[c].tex_path), kind |-> "Path"]
                         ELSE Raised(Get(th[c].exc))),
                ![c].pc = "done"]
    /\ UNCHANGED <<probe, tex_inputs, available, env, fs, procs, hist>>

(* compile_pdf, called on its own or by render, returns pdf_path, or the   *)
(* exception reaches the caller                                            *)
compile_pdf_ends(c) ==
    /\ th[c].pc \in {"return", "except"}
    /\ Last(hist[c].svcCalls).op \in {"compile_pdf", "render"}
    /\ th' = [th EXCEPT
                ![c].response =
                    Some(IF th[c].pc = "return"
                         THEN [path |-> Get(th[c].pdf_path), kind |-> "Path"]
                         ELSE Raised(Get(th[c].exc))),
                ![c].pc = "done"]
    /\ UNCHANGED <<probe, tex_inputs, available, env, fs, procs, hist>>

NextCompile ==
    \E c \in Calls :
        \/ Turn(c) /\ renderer_compile_pdf(c)
        \/ Turn(c) /\ renderer_render(c)
        \/ Turn(c) /\ renderer_write_tex(c)
        \/ write_tex(c)
        \/ write_text_data(c)
        \/ write_tex_ends(c)
        \/ compile_pdf(c)
        \/ spawn_pass(c)
        \/ pass_exit(c)
        \/ check_pdf(c)
        \/ compile_pdf_ends(c)
        \/ respond(c)

SpecCompile == InitCompile /\ [][NextCompile]_vars

(* the directory of the source file a call of compile_pdf was given *)
SourceDir(c) == Get(th[c].tex_path).parent

(* C23: every pass of the compiler runs with the directory of the source   *)
(* file as its working directory, so that the PDF the compiler writes and  *)
(* the PDF path that is checked afterwards, the source path with the       *)
(* suffix .pdf, are the same file: a PDF that is returned is the           *)
(* compilation of the source at the given path.                            *)
C23_CwdIsSourceDir ==
    /\ \A p \in procs : p.cwd = SourceDir(p.call)
    /\ \A c \in Calls :
        (th[c].pc = "return" /\ Attempt(c) = 1
         /\ Last(hist[c].svcCalls).op = "compile_pdf") =>
            fs[Get(th[c].pdf_path)] = [pdf_of |-> Some(fs[Get(th[c].tex_path)])]

(* the environment a pass runs with: its own, or the server's when the     *)
(* pass was given none (env=None inherits os.environ)                      *)
EffectiveEnv(p) == IF IsNone(p.env) THEN OsEnviron ELSE Get(p.env)

(* C26: when the renderer has extra input directories, every pass runs     *)
(* with TEXINPUTS set to those directories in their order, then an empty   *)
(* entry, then the temporary directory, joined with the path separator,    *)
(* and with the rest of the server's environment as it is; when it has     *)
(* none (no sequence, or an empty one) the pass is given no environment of *)
(* its own and runs with the server's, TEXINPUTS included.                 *)
C26_SearchPathEnvironment ==
    \A p \in procs :
        /\ tex_inputs \in {None, Some(<<>>)} => p.env = None
        /\ tex_inputs = Some(<<"templates">>) =>
              /\ ~IsNone(p.env)
              /\ EffectiveEnv(p)["TEXINPUTS"] = "templates::/tmp"
        /\ tex_inputs = Some(<<"templates", "styles">>) =>
              /\ ~IsNone(p.env)
              /\ EffectiveEnv(p)["TEXINPUTS"] = "templates:styles::/tmp"
        /\ DOMAIN EffectiveEnv(p) = DOMAIN OsEnviron
        /\ \A k \in DOMAIN OsEnviron \ {"TEXINPUTS"} : EffectiveEnv(p)[k] = OsEnviron[k]

(* a second pass is running with two extra input directories and a         *)
(* TEXINPUTS that is not the server's                                      *)
C26_Witness ==
    /\ tex_inputs = Some(<<"templates", "styles">>)
    /\ \E p \in procs :
        /\ p.pass = 2
        /\ Get(p.env)["TEXINPUTS"] # OsEnviron["TEXINPUTS"]

-----------------------------------------------------------------------------
(* C24: the source write makes sure the working directory is there when    *)
(* it writes, so the write succeeds whether or not the directory exists at *)
(* that time, also when it was removed after the renderer was constructed: *)
(* no service call of the source-text tool ends in an exception before its *)
(* source file is written.                                                 *)
C24_WriteEnsuresDirectory ==
    \A c \in Calls :
        th[c].pc = "except" => ~IsNone(th[c].tex_path)

-----------------------------------------------------------------------------
(* Concurrent requests whose threads are scheduled: the event loop and the *)
(* worker threads (anyio.to_thread.run_sync) take their next step when     *)
(* they have one. Nothing makes a compiler process exit: subprocess.run is *)
(* called without a timeout, so the exit of a pass has no fairness.        *)

(* a step of the request's own code, in the tool or in its worker thread *)
worker_step(c) ==
    \/ render_tex(c)
    \/ write_tex(c)
    \/ write_text_data(c)
    \/ compile_pdf(c)
    \/ spawn_pass(c)
    \/ check_pdf(c)
    \/ tool_return(c)
    \/ tool_except(c)
    \/ tool_retry(c)

(* the requests of SpecLive: both under one job name, with a ctx *)
LiveJobnames == { Some(<<"j">>) }

live_render_latex_document(c) ==
    \E jobname \in LiveJobnames, compile \in BOOLEAN, runs \in ConcRuns :
        Dispatch(c, [ jobname |-> jobname, context |-> None,
                      template_name |-> None, tex |-> Some(ConcTex(c)),
                      compile_pdf |-> compile, tool |-> "render_latex_document",
                      runs |-> runs, ctx |-> TRUE ])

NextLive ==
    \E c \in Calls :
        \/ live_render_latex_document(c)
        \/ render_tex(c)
        \/ write_tex(c)
        \/ write_text_data(c)
        \/ compile_pdf(c)
        \/ spawn_pass(c)
        \/ pass_exit(c)
        \/ check_pdf(c)
        \/ tool_return(c)
        \/ tool_except(c)
        \/ tool_retry(c)

SpecLive ==
    /\ Init
    /\ [][NextLive]_vars
    /\ \A c \in Calls : WF_vars(worker_step(c))

(* the request's worker is inside subprocess.run, waiting for a pass *)
Blocked(c) == th[c].pc = "wait"

(* every pass the request spawns exits *)
PassesExit(c) == Blocked(c) ~> ~Blocked(c)

(* the passes a request has spawned in its service call number a *)
SpawnsOf(c, a) == { i \in 1..Len(hist[c].spawns) : hist[c].spawns[i].attempt = a }

(* C25: a request whose compiler passes all exit is answered, whatever the *)
(* passes of the other request do; a service call spawns at most           *)
(* max(runs, 1) passes and a request makes at most two service calls;      *)
(* while a pass of a request runs the request takes no step of its own     *)
(* (there is no timeout and no cancellation: only the exit of the pass     *)
(* lets it go on), and a request that is not waiting for a pass of its own *)
(* can always take its next step, so a pass that never exits blocks the    *)
(* worker of its own request only.                                         *)
C25_Termination ==
    /\ \A c \in Calls : PassesExit(c) => (Active(c) ~> Done(c))
    /\ [](\A c \in Calls :
            /\ Attempt(c) <= 2
            /\ \A a \in 1..2 :
                Active(c) => Cardinality(SpawnsOf(c, a)) <= MaxOf(Req(c).runs, 1)
            /\ (\E p \in procs : p.call = c) => Blocked(c)
            /\ Blocked(c) => /\ ~ENABLED worker_step(c)
                             /\ ENABLED pass_exit(c)
            /\ (Active(c) /\ ~Done(c) /\ ~Blocked(c)) => ENABLED worker_step(c))

(* one request waits for its second pass while the other has run two       *)
(* passes of its own and is answered with a result                         *)
C25_Witness ==
    /\ Blocked(1)
    /\ \E p \in procs : p.call = 1 /\ p.pass = 2
    /\ Done(2)
    /\ Len(hist[2].exits) = 2
    /\ Response(2).kind = "ToolResult"

====
